---- MODULE Spec2Model ----
(***************************************************************************)
(* A model of compress.py: the script that finds recently created videos   *)
(* on the mounted volumes, copies them to ~/Movies with rsync, unmounts    *)
(* the volumes with diskutil and compresses the copies with HandBrakeCLI.  *)
(*                                                                         *)
(* A file name is a sequence of one-character strings, a path is the       *)
(* sequence of the names below the filesystem root, and the filesystem is  *)
(* a function from the existing paths to [kind, ctime].                    *)
(***************************************************************************)
EXTENDS Integers, Sequences, FiniteSets, TLC

VARIABLES fs, platform, clock, pc, volumes, videos, copied, unmounted,
          compressed, idx, done, procs, reads, abort, call

vars == <<fs, platform, clock, pc, volumes, videos, copied, unmounted,
          compressed, idx, done, procs, reads, abort, call>>

(***************************************************************************)
(* Bounds of the model.                                                    *)
(***************************************************************************)
\* raw timestamps (st_ctime, time.time()) range over 0..MaxStamp
MaxStamp == 8
\* raw timestamp units per datetime tick (a float of seconds has a finer
\* resolution than datetime's microsecond)
Resolution == 2
\* datetime ticks per day
TicksPerDay == 2
\* the days arguments tried range over -1..MaxDays
MaxDays == 2
\* entries the environment puts on the filesystem before a run or a call
MaxEntries == 3
\* longest path the environment creates (names below the root)
MaxDepth == 4

(***************************************************************************)
(* Names.                                                                  *)
(***************************************************************************)
mp4 == <<".", "m", "p", "4">>
mov == <<".", "m", "o", "v">>
\* _is_video's default for extensions
DefaultExtensions == <<mp4, mov>>
\* the name get_mounted_volumes leaves out
MacintoshHD == <<"M", "a", "c", "i", "n", "t", "o", "s", "h", " ", "H", "D">>
\* Path("/Volumes")
VolumesDir == << <<"V">> >>
\* Path.home()
HomeDir == << <<"~">> >>
\* Path.home() / "Movies", copy_to_dir's default for target_dir
MoviesDir == HomeDir \o << <<"M">> >>

(***************************************************************************)
(* Results of a Python call: a value, or the exception it raised.          *)
(***************************************************************************)
Ok(v) == [ok |-> TRUE, val |-> v]
Raise(e) == [ok |-> FALSE, val |-> e]
AssertionError == Raise("AssertionError")
FileNotFoundError == Raise("FileNotFoundError")

(***************************************************************************)
(* str and pathlib.                                                        *)
(***************************************************************************)
\* str.startswith
startswith(s, prefix) ==
    /\ Len(s) >= Len(prefix)
    /\ SubSeq(s, 1, Len(prefix)) = prefix

\* str.endswith
endswith(s, tail) ==
    /\ Len(s) >= Len(tail)
    /\ SubSeq(s, Len(s) - Len(tail) + 1, Len(s)) = tail

\* str.rfind(c): the last index of c in s, 0 when there is none (1-based)
rfind(s, c) ==
    LET hits == {i \in 1..Len(s) : s[i] = c}
    IN  IF hits = {} THEN 0 ELSE CHOOSE i \in hits : \A j \in hits : j <= i

\* Path.name
PathName(p) == IF p = <<>> THEN <<>> ELSE p[Len(p)]

\* Path.parent
PathParent(p) == IF p = <<>> THEN <<>> ELSE SubSeq(p, 1, Len(p) - 1)

\* Path.suffix: the name from its last dot on, unless that dot starts or
\* ends the name
PathSuffix(p) ==
    LET nm == PathName(p)
        i  == rfind(nm, ".")
    IN  IF 1 < i /\ i < Len(nm) THEN SubSeq(nm, i, Len(nm)) ELSE <<>>

RECURSIVE SplitFrom(_, _, _, _)
\* the segments of s between "/" characters, from index i on; cur is the
\* segment being read and acc the segments already closed
SplitFrom(s, i, cur, acc) ==
    IF i > Len(s) THEN Append(acc, cur)
    ELSE IF s[i] = "/" THEN SplitFrom(s, i + 1, <<>>, Append(acc, cur))
    ELSE SplitFrom(s, i + 1, Append(cur, s[i]), acc)

\* the path components of a string: empty and "." segments are dropped
PathParts(s) ==
    SelectSeq(SplitFrom(s, 1, <<>>, <<>>), LAMBDA seg : seg # <<>> /\ seg # <<".">>)

\* Path.__truediv__: p / s
PathJoin(p, s) ==
    IF startswith(s, <<"/">>) THEN PathParts(s) ELSE p \o PathParts(s)

\* Path.exists, Path.is_file, Path.is_dir
exists(F, p) == p \in DOMAIN F
is_file(F, p) == p \in DOMAIN F /\ F[p].kind = "file"
is_dir(F, p) == p \in DOMAIN F /\ F[p].kind = "dir"

RECURSIVE SetToSeq(_)
SetToSeq(S) ==
    IF S = {} THEN <<>>
    ELSE LET x == CHOOSE y \in S : TRUE IN <<x>> \o SetToSeq(S \ {x})

\* Path.iterdir: the entries of directory p, in an order the filesystem
\* picks
iterdir(F, p) ==
    SetToSeq({q \in DOMAIN F : Len(q) = Len(p) + 1 /\ PathParent(q) = p})

(***************************************************************************)
(* datetime.                                                               *)
(***************************************************************************)
\* datetime.fromtimestamp: a raw timestamp rounded to the nearest tick,
\* a tie to the even one
fromtimestamp(ts) ==
    LET q == ts \div Resolution
        r == ts % Resolution
    IN  IF 2 * r < Resolution THEN q
        ELSE IF 2 * r > Resolution THEN q + 1
        ELSE IF q % 2 = 0 THEN q ELSE q + 1

\* datetime.today() at raw time now
today(now) == fromtimestamp(now)

\* timedelta(days=days), in ticks
timedelta(days) == days * TicksPerDay

Digit(n) ==
    CASE n = 0 -> "0" [] n = 1 -> "1" [] n = 2 -> "2" [] n = 3 -> "3"
      [] n = 4 -> "4" [] n = 5 -> "5" [] n = 6 -> "6" [] n = 7 -> "7"
      [] n = 8 -> "8" [] n = 9 -> "9"

RECURSIVE Decimal(_)
Decimal(n) == IF n < 10 THEN <<Digit(n)>> ELSE Append(Decimal(n \div 10), Digit(n % 10))

\* datetime.isoformat: the date, "T", the time of day, and the fraction
\* only when it is not zero
isoformat(t) ==
    LET day  == t \div TicksPerDay
        frac == t % TicksPerDay
    IN  Decimal(day) \o <<"T">> \o <<"0", "0", ":", "0", "0">>
          \o (IF frac = 0 THEN <<>> ELSE <<".">> \o Decimal(frac))

(***************************************************************************)
(* The functions of compress.py that only read.                            *)
(***************************************************************************)
SeqElems(s) == {s[i] : i \in 1..Len(s)}

\* _is_video without its assertion
_is_video_unchecked(F, file_dir, extensions) ==
    Ok(PathSuffix(file_dir) \in SeqElems(extensions))

\* _is_video(file_dir, extensions)
_is_video(F, file_dir, extensions) ==
    IF ~is_file(F, file_dir) THEN AssertionError
    ELSE Ok(PathSuffix(file_dir) \in SeqElems(extensions))

\* _is_recent with a strict comparison
_is_recent_strict(F, file_dir, days, now) ==
    IF ~(days >= 1) THEN AssertionError
    ELSE IF ~exists(F, file_dir) THEN FileNotFoundError
    ELSE Ok(fromtimestamp(F[file_dir].ctime) + timedelta(days) > today(now))

\* _is_recent(file_dir, days) at raw time now
_is_recent(F, file_dir, days, now) ==
    IF ~(days >= 1) THEN AssertionError
    ELSE IF ~exists(F, file_dir) THEN FileNotFoundError
    ELSE LET created_timestamp == fromtimestamp(F[file_dir].ctime)
         IN  Ok(created_timestamp + timedelta(days) >= today(now))

\* get_new_dir that forgets .parent
get_new_dir_below(F, origin_dir, extension, now) ==
    IF ~exists(F, origin_dir) THEN AssertionError
    ELSE Ok(PathJoin(origin_dir, isoformat(today(now)) \o extension))

\* get_new_dir(origin_dir, extension) at raw time now
get_new_dir(F, origin_dir, extension, now) ==
    IF ~exists(F, origin_dir) THEN AssertionError
    ELSE LET new_name == isoformat(today(now)) \o extension
         IN  Ok(PathJoin(PathParent(origin_dir), new_name))

\* the test for a hidden entry in get_recent_videos
IsHiddenEntry(sub_dir) == startswith(PathName(sub_dir), <<".">>)

RECURSIVE get_recent_videos(_, _, _, _)
RECURSIVE WalkEntries(_, _, _, _, _, _)
\* get_recent_videos(base_dir, n_days) at raw time now
get_recent_videos(F, base_dir, n_days, now) ==
    IF ~is_dir(F, base_dir) THEN AssertionError
    ELSE WalkEntries(F, iterdir(F, base_dir), 1, <<>>, n_days, now)

\* the loop of get_recent_videos over the entries of one directory, from
\* entry i on, with the result collected so far
WalkEntries(F, entries, i, result, n_days, now) ==
    IF i > Len(entries) THEN Ok(result)
    ELSE
      LET sub_dir == entries[i] IN
      IF IsHiddenEntry(sub_dir)
      THEN WalkEntries(F, entries, i + 1, result, n_days, now)
      ELSE IF is_dir(F, sub_dir)
      THEN LET below == get_recent_videos(F, sub_dir, n_days, now)
           IN  IF ~below.ok THEN below
               ELSE WalkEntries(F, entries, i + 1, result \o below.val, n_days, now)
      ELSE LET video == _is_video(F, sub_dir, DefaultExtensions)
           IN  IF ~video.ok THEN video
               ELSE IF ~video.val
               THEN WalkEntries(F, entries, i + 1, result, n_days, now)
               ELSE LET recent == _is_recent(F, sub_dir, n_days, now)
                    IN  IF ~recent.ok THEN recent
                        ELSE IF recent.val
                        THEN WalkEntries(F, entries, i + 1, Append(result, sub_dir), n_days, now)
                        ELSE WalkEntries(F, entries, i + 1, result, n_days, now)

\* IsVolume without the test for a hidden entry
IsVolumeNotBoot(sub_dir) == PathName(sub_dir) # MacintoshHD

\* the test of get_mounted_volumes for an entry of /Volumes it keeps
IsVolume(sub_dir) ==
    /\ PathName(sub_dir) # MacintoshHD
    /\ ~startswith(PathName(sub_dir), <<".">>)

\* the loop of get_mounted_volumes over the entries of /Volumes
MountedVolumes(F) == SelectSeq(iterdir(F, VolumesDir), IsVolume)

(***************************************************************************)
(* The state.                                                              *)
(*   fs         the filesystem                                             *)
(*   platform   sys.platform                                               *)
(*   clock      the raw time                                               *)
(*   pc         the position of the script                                 *)
(*   volumes, videos, copied, unmounted, compressed   the script's lists   *)
(*   idx        the index of the loop at pc                                *)
(*   done       unmount_volumes' local list                                *)
(*   procs      the subprocesses started so far, in order                  *)
(*   reads      the directories get_mounted_volumes has listed             *)
(*   abort      the exception that ended the script, "" when none did      *)
(*   call       the last call of a function made on its own                *)
(***************************************************************************)
Kinds == {"file", "dir", "other"}
Entry(k, t) == [kind |-> k, ctime |-> t]
\* the directories every filesystem has
BaseFs == (VolumesDir :> Entry("dir", 0)) @@ (HomeDir :> Entry("dir", 0))
NoCall == [fn |-> "none", args |-> <<>>, res |-> Ok(<<>>)]

ScriptInit ==
    /\ pc = "start"
    /\ volumes = <<>>
    /\ videos = <<>>
    /\ copied = <<>>
    /\ unmounted = <<>>
    /\ compressed = <<>>
    /\ idx = 1
    /\ done = <<>>
    /\ procs = <<>>
    /\ reads = {}
    /\ abort = ""
    /\ call = NoCall

scriptVars == <<pc, volumes, videos, copied, unmounted, compressed, idx,
                done, procs, reads, abort>>

(***************************************************************************)
(* The predicates and get_new_dir, each called on its own on a filesystem  *)
(* that holds one entry besides the base directories.                      *)
(***************************************************************************)
FnNames ==
    { <<"c">> \o mp4, <<"o">> \o mov, <<"C", ".", "M", "P", "4">>,
      mp4, <<".", "h">> \o mov, <<"a">> \o mp4 \o <<".", "t">>,
      <<"m", "p", "4">>, <<"n">>, <<"x", "m", "o", "v">>, <<"c">> \o mp4 \o <<"v">> }

\* the extension arguments tried on get_new_dir
FnExtensions == {mp4, mov, <<>>, <<".", "a", "/", "b">>, <<"/", "x">>, <<".", "m", "/">>}

\* a path with no entry
GonePath == HomeDir \o << <<"g">> \o mp4 >>

InitFn ==
    /\ ScriptInit
    /\ platform = "darwin"
    /\ clock \in 0..MaxStamp
    /\ \E nm \in FnNames, k \in Kinds, t \in 0..MaxStamp :
         fs = BaseFs @@ ((HomeDir \o <<nm>>) :> Entry(k, t))

FnPaths == (DOMAIN fs \ DOMAIN BaseFs) \cup {GonePath}

CallIsVideo ==
    /\ call = NoCall
    /\ \E p \in FnPaths :
         call' = [fn |-> "_is_video", args |-> <<p>>,
                  res |-> _is_video(fs, p, DefaultExtensions)]
    /\ UNCHANGED <<fs, platform, clock, scriptVars>>

CallIsRecent ==
    /\ call = NoCall
    /\ \E p \in FnPaths, days \in -1..MaxDays :
         call' = [fn |-> "_is_recent", args |-> <<p, days>>,
                  res |-> _is_recent(fs, p, days, clock)]
    /\ UNCHANGED <<fs, platform, clock, scriptVars>>

CallGetNewDir ==
    /\ call = NoCall
    /\ \E p \in FnPaths, extension \in FnExtensions :
         call' = [fn |-> "get_new_dir", args |-> <<p, extension>>,
                  res |-> get_new_dir(fs, p, extension, clock)]
    /\ UNCHANGED <<fs, platform, clock, scriptVars>>

NextFn == CallIsVideo \/ CallIsRecent \/ CallGetNewDir

SpecFn == InitFn /\ [][NextFn]_vars

(***************************************************************************)
(* The environment: what is on the volumes before the script starts or a   *)
(* function is called.                                                     *)
(***************************************************************************)
TreeNames == { <<"c">> \o mp4, <<"o">> \o mov, <<".", "c">> \o mp4, <<"d">>, MacintoshHD }
TreeStamps == {0, MaxStamp}

Create ==
    /\ pc = "start"
    /\ call = NoCall
    /\ Cardinality({p \in DOMAIN fs : startswith(p, VolumesDir)}) <= MaxEntries
    /\ \E parent \in DOMAIN fs, nm \in TreeNames, k \in Kinds, t \in TreeStamps :
         /\ is_dir(fs, parent)
         /\ startswith(parent, VolumesDir)
         /\ Len(parent) < MaxDepth
         /\ (parent \o <<nm>>) \notin DOMAIN fs
         /\ k # "file" => t = 0
         /\ fs' = fs @@ ((parent \o <<nm>>) :> Entry(k, t))
    /\ UNCHANGED <<platform, clock, scriptVars, call>>

(***************************************************************************)
(* get_recent_videos called on its own on the tree below /Volumes.         *)
(***************************************************************************)
InitWalk ==
    /\ ScriptInit
    /\ platform = "darwin"
    /\ clock = MaxStamp
    /\ fs = BaseFs

CallGetRecentVideos ==
    /\ call = NoCall
    /\ \E n_days \in 0..MaxDays :
         call' = [fn |-> "get_recent_videos", args |-> <<VolumesDir, n_days>>,
                  res |-> get_recent_videos(fs, VolumesDir, n_days, clock)]
    /\ UNCHANGED <<fs, platform, clock, scriptVars>>

NextWalk == Create \/ CallGetRecentVideos

SpecWalk == InitWalk /\ [][NextWalk]_vars

(***************************************************************************)
(* The functions that start a subprocess.  A subprocess is a record        *)
(* [cmd, src, out, state, status]; Popen appends it to procs as running,   *)
(* the environment lets it exit, and wait() returns once it has exited.    *)
(***************************************************************************)
Process(cmd, src, out) ==
    [cmd |-> cmd, src |-> src, out |-> out, state |-> "running", status |-> -1]

\* get_mounted_volumes(): its result and the directories it has listed
get_mounted_volumes(F, plat) ==
    IF plat # "darwin"
    THEN [res |-> AssertionError, listed |-> {}]
    ELSE [res |-> Ok(MountedVolumes(F)), listed |-> {VolumesDir}]

\* copy_to_dir that starts rsync before it looks at target_dir
copy_to_dir_popen_first(F, source_dir, target_dir) ==
    [res |-> IF is_dir(F, target_dir) THEN Ok(TRUE) ELSE AssertionError,
     started |-> <<Process("rsync", source_dir, target_dir)>>]

\* copy_to_dir up to Popen: the subprocesses it starts, or the error raised
copy_to_dir_popen(F, source_dir, target_dir) ==
    IF ~is_dir(F, target_dir) THEN [res |-> AssertionError, started |-> <<>>]
    ELSE [res |-> Ok(TRUE),
          started |-> <<Process("rsync", source_dir, target_dir)>>]

\* copy_to_dir's return value
copy_to_dir_return(source_dir, target_dir) == PathJoin(target_dir, PathName(source_dir))

\* run_handbrake up to Popen
run_handbrake_popen(F, source_dir, now) ==
    LET video == _is_video(F, source_dir, DefaultExtensions) IN
    IF ~video.ok \/ ~video.val THEN [res |-> AssertionError, started |-> <<>>]
    ELSE LET new_dir == get_new_dir(F, source_dir, mp4, now) IN
         IF ~new_dir.ok THEN [res |-> new_dir, started |-> <<>>]
         ELSE [res |-> new_dir,
               started |-> <<Process("HandBrakeCLI", source_dir, new_dir.val)>>]

\* one turn of unmount_volumes' loop up to Popen
unmount_popen(F, volume) ==
    IF ~is_dir(F, volume) THEN [res |-> AssertionError, started |-> <<>>]
    ELSE [res |-> Ok(TRUE), started |-> <<Process("diskutil", volume, <<>>)>>]

\* a wait() that does not block
wait_returns_at_once(ps) == TRUE

\* process.wait(): whether it can return for the subprocess started last
wait_returns(ps) == ps # <<>> /\ ps[Len(ps)].state = "exited"

(***************************************************************************)
(* What a subprocess that exits with status 0 has done to the filesystem.  *)
(***************************************************************************)
WriteFile(F, p, t) == [q \in DOMAIN F \cup {p} |-> IF q = p THEN Entry("file", t) ELSE F[q]]

Effect(F, proc, now) ==
    CASE proc.cmd = "rsync" ->
           IF is_file(F, proc.src) /\ is_dir(F, proc.out)
              /\ ~is_dir(F, PathJoin(proc.out, PathName(proc.src)))
           THEN WriteFile(F, PathJoin(proc.out, PathName(proc.src)), now)
           ELSE F
      [] proc.cmd = "HandBrakeCLI" ->
           IF is_file(F, proc.src) /\ is_dir(F, PathParent(proc.out))
              /\ ~is_dir(F, proc.out)
           THEN WriteFile(F, proc.out, now)
           ELSE F
      [] proc.cmd = "diskutil" ->
           [q \in {r \in DOMAIN F : ~startswith(r, proc.src)} |-> F[q]]

(***************************************************************************)
(* The script (the __main__ block), one action per step.                   *)
(***************************************************************************)
Abort(at) ==
    /\ pc' = "aborted"
    /\ abort' = at

\* volumes = get_mounted_volumes()
GetMountedVolumes ==
    /\ pc = "start"
    /\ LET r == get_mounted_volumes(fs, platform) IN
       /\ reads' = reads \cup r.listed
       /\ IF r.res.ok
          THEN /\ volumes' = r.res.val
               /\ pc' = "find"
               /\ abort' = abort
          ELSE /\ Abort("get_mounted_volumes")
               /\ volumes' = volumes
    /\ UNCHANGED <<fs, platform, clock, videos, copied, unmounted, compressed,
                   idx, done, procs, call>>

\* videos = [... for volume in volumes for video in get_recent_videos(volume)]:
\* one volume
FindVideos ==
    /\ pc = "find"
    /\ idx <= Len(volumes)
    /\ LET r == get_recent_videos(fs, volumes[idx], 1, clock) IN
       IF r.ok
       THEN /\ videos' = videos \o r.val
            /\ idx' = idx + 1
            /\ UNCHANGED <<pc, abort>>
       ELSE /\ Abort("get_recent_videos")
            /\ UNCHANGED <<videos, idx>>
    /\ UNCHANGED <<fs, platform, clock, volumes, copied, unmounted, compressed,
                   done, procs, reads, call>>

FindDone ==
    /\ pc = "find"
    /\ idx > Len(volumes)
    /\ pc' = "copy"
    /\ idx' = 1
    /\ UNCHANGED <<fs, platform, clock, volumes, videos, copied, unmounted,
                   compressed, done, procs, reads, abort, call>>

\* copy_to_dir(video), to Popen
CopyPopen ==
    /\ pc = "copy"
    /\ idx <= Len(videos)
    /\ LET r == copy_to_dir_popen(fs, videos[idx], MoviesDir) IN
       /\ procs' = procs \o r.started
       /\ IF r.res.ok
          THEN pc' = "copy_wait" /\ abort' = abort
          ELSE Abort("copy_to_dir")
    /\ UNCHANGED <<fs, platform, clock, volumes, videos, copied, unmounted,
                   compressed, idx, done, reads, call>>

\* copy_to_dir(video), from process.wait() to the return
CopyWait ==
    /\ pc = "copy_wait"
    /\ wait_returns(procs)
    /\ copied' = Append(copied, copy_to_dir_return(videos[idx], MoviesDir))
    /\ idx' = idx + 1
    /\ pc' = "copy"
    /\ UNCHANGED <<fs, platform, clock, volumes, videos, unmounted, compressed,
                   done, procs, reads, abort, call>>

\* the script calling unmount_volumes after the first copy
CopyDoneEarly ==
    /\ pc = "copy"
    /\ idx > 1 \/ idx > Len(videos)
    /\ pc' = "unmount"
    /\ idx' = 1
    /\ done' = <<>>
    /\ UNCHANGED <<fs, platform, clock, volumes, videos, copied, unmounted,
                   compressed, procs, reads, abort, call>>

\* the script compressing the copies before it unmounts the volumes
CopyDoneThenHandbrake ==
    /\ pc = "copy"
    /\ idx > Len(videos)
    /\ pc' = "handbrake"
    /\ idx' = 1
    /\ done' = volumes
    /\ unmounted' = volumes
    /\ UNCHANGED <<fs, platform, clock, volumes, videos, copied,
                   compressed, procs, reads, abort, call>>

\* unmounted = unmount_volumes(volumes): the call
CopyDone ==
    /\ pc = "copy"
    /\ idx > Len(videos)
    /\ pc' = "unmount"
    /\ idx' = 1
    /\ done' = <<>>
    /\ UNCHANGED <<fs, platform, clock, volumes, videos, copied, unmounted,
                   compressed, procs, reads, abort, call>>

\* unmount_volumes: one turn of the loop, to Popen
UnmountPopen ==
    /\ pc = "unmount"
    /\ idx <= Len(volumes)
    /\ LET r == unmount_popen(fs, volumes[idx]) IN
       /\ procs' = procs \o r.started
       /\ IF r.res.ok
          THEN pc' = "unmount_wait" /\ abort' = abort
          ELSE Abort("unmount_volumes")
    /\ UNCHANGED <<fs, platform, clock, volumes, videos, copied, unmounted,
                   compressed, idx, done, reads, call>>

\* unmount_volumes keeping only the volumes diskutil unmounted
UnmountWaitChecked ==
    /\ pc = "unmount_wait"
    /\ wait_returns(procs)
    /\ done' = IF procs[Len(procs)].status = 0 THEN Append(done, volumes[idx]) ELSE done
    /\ idx' = idx + 1
    /\ pc' = "unmount"
    /\ UNCHANGED <<fs, platform, clock, volumes, videos, copied, unmounted,
                   compressed, procs, reads, abort, call>>

\* unmount_volumes: one turn of the loop, from process.wait() on
UnmountWait ==
    /\ pc = "unmount_wait"
    /\ wait_returns(procs)
    /\ done' = Append(done, volumes[idx])
    /\ idx' = idx + 1
    /\ pc' = "unmount"
    /\ UNCHANGED <<fs, platform, clock, volumes, videos, copied, unmounted,
                   compressed, procs, reads, abort, call>>

\* unmount_volumes: return done
UnmountReturn ==
    /\ pc = "unmount"
    /\ idx > Len(volumes)
    /\ unmounted' = done
    /\ pc' = "assert_unmounted"
    /\ UNCHANGED <<fs, platform, clock, volumes, videos, copied, compressed,
                   idx, done, procs, reads, abort, call>>

\* assert len(volumes) == len(unmounted)
AssertUnmounted ==
    /\ pc = "assert_unmounted"
    /\ IF Len(volumes) = Len(unmounted)
       THEN pc' = "handbrake" /\ idx' = 1 /\ abort' = abort
       ELSE Abort("len(volumes) == len(unmounted)") /\ idx' = idx
    /\ UNCHANGED <<fs, platform, clock, volumes, videos, copied, unmounted,
                   compressed, done, procs, reads, call>>

\* run_handbrake(video), to Popen
HandbrakePopen ==
    /\ pc = "handbrake"
    /\ idx <= Len(copied)
    /\ LET r == run_handbrake_popen(fs, copied[idx], clock) IN
       /\ procs' = procs \o r.started
       /\ IF r.res.ok
          THEN pc' = "handbrake_wait" /\ abort' = abort
          ELSE Abort("run_handbrake")
    /\ UNCHANGED <<fs, platform, clock, volumes, videos, copied, unmounted,
                   compressed, idx, done, reads, call>>

\* run_handbrake(video), from process.wait() to the return
HandbrakeWait ==
    /\ pc = "handbrake_wait"
    /\ wait_returns(procs)
    /\ compressed' = Append(compressed, procs[Len(procs)].out)
    /\ idx' = idx + 1
    /\ pc' = "handbrake"
    /\ UNCHANGED <<fs, platform, clock, volumes, videos, copied, unmounted,
                   done, procs, reads, abort, call>>

HandbrakeDone ==
    /\ pc = "handbrake"
    /\ idx > Len(copied)
    /\ pc' = "assert_compressed"
    /\ UNCHANGED <<fs, platform, clock, volumes, videos, copied, unmounted,
                   compressed, idx, done, procs, reads, abort, call>>

\* assert len(videos) == len(compressed)
AssertCompressed ==
    /\ pc = "assert_compressed"
    /\ IF Len(videos) = Len(compressed)
       THEN pc' = "done" /\ abort' = abort
       ELSE Abort("len(videos) == len(compressed)")
    /\ UNCHANGED <<fs, platform, clock, volumes, videos, copied, unmounted,
                   compressed, idx, done, procs, reads, call>>

\* the environment: a running subprocess exits, with status 0 and its
\* effect or with status 1 and none
ProcExit ==
    /\ \E i \in 1..Len(procs), status \in {0, 1} :
         /\ procs[i].state = "running"
         /\ procs' = [procs EXCEPT ![i].state = "exited", ![i].status = status]
         /\ fs' = IF status = 0 THEN Effect(fs, procs[i], clock) ELSE fs
    /\ UNCHANGED <<platform, clock, pc, volumes, videos, copied, unmounted,
                   compressed, idx, done, reads, abort, call>>

Init ==
    /\ ScriptInit
    /\ platform \in {"darwin", "linux"}
    /\ clock = MaxStamp
    /\ fs \in { BaseFs,
                BaseFs @@ (MoviesDir :> Entry("file", 0)),
                BaseFs @@ (MoviesDir :> Entry("dir", 0)),
                BaseFs @@ (MoviesDir :> Entry("dir", 0))
                       @@ ((MoviesDir \o << <<"c">> \o mp4 >>) :> Entry("file", 0)) }

Next ==
    \/ Create
    \/ GetMountedVolumes
    \/ FindVideos
    \/ FindDone
    \/ CopyPopen
    \/ CopyWait
    \/ CopyDone
    \/ UnmountPopen
    \/ UnmountWait
    \/ UnmountReturn
    \/ AssertUnmounted
    \/ HandbrakePopen
    \/ HandbrakeWait
    \/ HandbrakeDone
    \/ AssertCompressed
    \/ ProcExit

Spec == Init /\ [][Next]_vars

(***************************************************************************)
(* Properties of the predicates and of get_new_dir (under SpecFn).         *)
(***************************************************************************)
\* a name that ends with ext after at least one more character
NameHasSuffix(nm, ext) == Len(nm) > Len(ext) /\ endswith(nm, ext)

\* C7: on a regular file _is_video returns whether the suffix is exactly
\* .mp4 or .mov (in lower case only), and on a path that is no regular file
\* it raises the assertion's error and returns nothing.
IsVideoBySuffix ==
    call.fn = "_is_video" =>
      LET p == call.args[1] IN
      /\ is_file(fs, p) =>
           call.res = Ok(NameHasSuffix(PathName(p), mp4) \/ NameHasSuffix(PathName(p), mov))
      /\ ~is_file(fs, p) => call.res = AssertionError

\* C7's case: _is_video has answered TRUE for a regular file
IsVideoTrueReached ==
    /\ call.fn = "_is_video"
    /\ is_file(fs, call.args[1])
    /\ call.res = Ok(TRUE)

\* C6: _is_recent raises the assertion's error for every days < 1, and for
\* days >= 1 returns whether now - creation time <= days, the two times
\* being the datetimes the function compares; at exactly days it is TRUE.
IsRecentInclusive ==
    call.fn = "_is_recent" =>
      LET p    == call.args[1]
          days == call.args[2]
      IN
      /\ days < 1 => call.res = AssertionError
      /\ (days >= 1 /\ exists(fs, p)) =>
           call.res = Ok(today(clock) - fromtimestamp(fs[p].ctime) <= days * TicksPerDay)

\* C6's case: a file whose age is exactly days is reported recent
IsRecentBoundaryReached ==
    /\ call.fn = "_is_recent"
    /\ call.args[2] >= 1
    /\ exists(fs, call.args[1])
    /\ today(clock) - fromtimestamp(fs[call.args[1]].ctime) = call.args[2] * TicksPerDay
    /\ call.res = Ok(TRUE)

\* what C8 says of a call of get_new_dir whose origin exists
NewDirBesideOrigin ==
    LET origin == call.args[1]
        extension == call.args[2]
    IN  /\ call.res.ok
        /\ PathParent(call.res.val) = PathParent(origin)
        /\ endswith(PathName(call.res.val), extension)

\* C8 as stated: for every existing origin and every extension the result
\* lies in origin's parent directory and its name ends with the extension;
\* for an origin that does not exist the assertion's error is raised.
NewDirAnyExtension ==
    call.fn = "get_new_dir" =>
      /\ exists(fs, call.args[1]) => NewDirBesideOrigin
      /\ ~exists(fs, call.args[1]) => call.res = AssertionError

\* C8 amended: the same, for the extensions that hold no "/".
NewDirPlainExtension ==
    call.fn = "get_new_dir" =>
      /\ (exists(fs, call.args[1]) /\ "/" \notin SeqElems(call.args[2])) => NewDirBesideOrigin
      /\ ~exists(fs, call.args[1]) => call.res = AssertionError

\* C8's case: get_new_dir has returned a path for an existing origin and
\* the extension .mp4
NewDirReached ==
    /\ call.fn = "get_new_dir"
    /\ exists(fs, call.args[1])
    /\ call.args[2] = mp4
    /\ call.res.ok
    /\ PathName(call.res.val) # call.args[2]

(***************************************************************************)
(* Properties of get_recent_videos (under SpecWalk).                       *)
(***************************************************************************)
\* the regular files below base with a video suffix, recent for n_days at
\* raw time now, and no name below base that starts with "."
RecentVisibleVideos(F, base, n_days, now) ==
    { p \in DOMAIN F :
        /\ Len(p) > Len(base)
        /\ startswith(p, base)
        /\ F[p].kind = "file"
        /\ NameHasSuffix(PathName(p), mp4) \/ NameHasSuffix(PathName(p), mov)
        /\ today(now) - fromtimestamp(F[p].ctime) <= n_days * TicksPerDay
        /\ \A i \in (Len(base) + 1)..Len(p) : p[i][1] # "." }

\* C1: for every tree and every n_days >= 1, get_recent_videos returns
\* exactly (each once) the regular files that have a video suffix, are
\* recent for n_days and have no hidden name on their path below base_dir.
RecentVideosExactly ==
    (call.fn = "get_recent_videos" /\ call.args[2] >= 1) =>
      /\ call.res.ok
      /\ SeqElems(call.res.val)
           = RecentVisibleVideos(fs, call.args[1], call.args[2], clock)
      /\ Len(call.res.val) = Cardinality(SeqElems(call.res.val))

(***************************************************************************)
(* Properties of the script (under Spec).                                  *)
(***************************************************************************)
Running == {i \in 1..Len(procs) : procs[i].state = "running"}
Started(cmd) == {i \in 1..Len(procs) : procs[i].cmd = cmd}

\* C2 as stated: the steps run in the order discovery, copy, transcode,
\* unmount: an unmount is started only after every copied video has been
\* transcoded.
TranscodeBeforeUnmount ==
    \A i \in Started("diskutil") :
      \A k \in 1..Len(copied) :
        \E j \in Started("HandBrakeCLI") : j < i /\ procs[j].src = copied[k]

Phase(cmd) ==
    CASE cmd = "rsync" -> 1 [] cmd = "diskutil" -> 2 [] cmd = "HandBrakeCLI" -> 3

\* C2 amended: the steps run in the order discovery, copy, unmount,
\* transcode: a subprocess is started only after discovery is over, the
\* subprocesses start in the order rsync, diskutil, HandBrakeCLI, and a
\* transcode is started only after an unmount of every volume has been
\* started and waited for.
UnmountBeforeTranscode ==
    /\ procs # <<>> => pc \notin {"start", "find"}
    /\ \A i, j \in 1..Len(procs) : i < j => Phase(procs[i].cmd) <= Phase(procs[j].cmd)
    /\ \A i \in Started("HandBrakeCLI") :
         /\ Len(copied) = Len(videos)
         /\ \A k \in 1..Len(volumes) :
              \E j \in Started("diskutil") :
                j < i /\ procs[j].src = volumes[k] /\ procs[j].state = "exited"

\* C2's case: a transcode has started in a run that found a volume
TranscodeReached ==
    /\ Started("HandBrakeCLI") # {}
    /\ Started("diskutil") # {}

\* C3: an unmount is started only after a copy of every video found has
\* been started and waited for.
CopiesBeforeUnmount ==
    \A i \in Started("diskutil") :
      /\ Len(copied) = Len(videos)
      /\ \A k \in 1..Len(videos) :
           \E j \in Started("rsync") :
             j < i /\ procs[j].src = videos[k] /\ procs[j].state = "exited"

\* C3's case: an unmount has started in a run that found two videos
UnmountAfterTwoCopies ==
    /\ Started("diskutil") # {}
    /\ Len(videos) >= 2

\* C4: a call of copy_to_dir whose target_dir is no directory ends the run
\* with the assertion's error and starts no subprocess.
CopyAssertsBeforePopen ==
    [][(pc = "copy" /\ idx <= Len(videos) /\ ~is_dir(fs, MoviesDir))
         => (pc' = "aborted" /\ abort' = "copy_to_dir" /\ procs' = procs)]_vars

\* C4's case: copy_to_dir has failed on a target_dir that is no directory
CopyAbortReached ==
    /\ pc = "aborted"
    /\ abort = "copy_to_dir"
    /\ ~is_dir(fs, MoviesDir)
    /\ Started("rsync") = {}

\* C5: at most one subprocess is running, and none is while the script is
\* anywhere but in a wait().
OneSubprocessAtATime ==
    /\ Cardinality(Running) <= 1
    /\ pc \notin {"copy_wait", "unmount_wait", "handbrake_wait"} => Running = {}

\* C5's case: a subprocess runs after an earlier one was started
SecondSubprocessRunning ==
    /\ Len(procs) >= 2
    /\ Running = {Len(procs)}

\* the entries of /Volumes that are neither the boot volume nor hidden
ExpectedVolumes(F) ==
    { p \in DOMAIN F :
        /\ Len(p) = Len(VolumesDir) + 1
        /\ startswith(p, VolumesDir)
        /\ p[Len(p)] # MacintoshHD
        /\ p[Len(p)][1] # "." }

\* C9: on macOS get_mounted_volumes returns exactly (each once) the entries
\* of /Volumes that are neither named Macintosh HD nor hidden; elsewhere it
\* raises the assertion's error and has not listed /Volumes.
MountedVolumesExactly ==
    /\ (pc = "find" /\ idx = 1) =>
         /\ platform = "darwin"
         /\ SeqElems(volumes) = ExpectedVolumes(fs)
         /\ Len(volumes) = Cardinality(ExpectedVolumes(fs))
    /\ (platform # "darwin" /\ pc # "start") =>
         /\ pc = "aborted"
         /\ abort = "get_mounted_volumes"
         /\ reads = {}

\* C9's case: get_mounted_volumes has returned a volume from a /Volumes
\* that also holds the boot volume and a hidden entry
VolumesFilteredReached ==
    /\ pc = "find"
    /\ idx = 1
    /\ volumes # <<>>
    /\ (VolumesDir \o <<MacintoshHD>>) \in DOMAIN fs
    /\ \E p \in DOMAIN fs : Len(p) = 2 /\ startswith(p, VolumesDir) /\ p[2][1] = "."

\* C10: neither count assertion fails: when unmount_volumes has returned,
\* its result is its argument, and at the last assertion there are as many
\* compressed files as videos, whatever the subprocesses' exit statuses.
CountAssertionsHold ==
    /\ abort \notin {"len(volumes) == len(unmounted)", "len(videos) == len(compressed)"}
    /\ pc = "assert_unmounted" => unmounted = volumes
    /\ pc = "assert_compressed" => Len(compressed) = Len(videos)

\* C10's case: the script has passed both assertions in a run where an
\* rsync, a diskutil and a HandBrakeCLI exited with status 1
DoneDespiteFailures ==
    /\ pc = "done"
    /\ \E i \in Started("rsync") : procs[i].status = 1
    /\ \E i \in Started("diskutil") : procs[i].status = 1
    /\ \E i \in Started("HandBrakeCLI") : procs[i].status = 1

====
